---- MODULE Spec2Model ----
(***************************************************************************)
(* A model of thread.Thread (src/thread/thread.go): the tracker of the     *)
(* blockfiles of one stenotype thread.  SyncFiles discovers new blockfiles *)
(* and evicts the oldest ones under the write lock of t.mu; Lookup fans a  *)
(* query out over the tracked blockfiles under the read lock of t.mu and   *)
(* returns the concatenation of the per-file results.                      *)
(*                                                                         *)
(* File names are strings; they are modelled as sequences of digits and    *)
(* compared as sort.Strings compares them, lexicographically.              *)
(***************************************************************************)
EXTENDS Naturals, Sequences, FiniteSets

\* ------------------------------------------------------------------ bounds

\* How many blockfile names the writer (stenotype) may ever create.
NumNames == 3

\* The most packets one per-file query sends to its channel.
MaxPkts == 1

\* How many blockfiles the writer creates where Lookups run beside SyncFiles.
MaxFiles == 2

\* ------------------------------------------------- configuration, constants

\* conf.DiskFreePercentage: eviction runs while the free percentage is at or
\* below it.
DiskFreePercentage == 10

\* The capacity of the channel of per-file packet channels of one Lookup.
concurrentBlockfileReadsPerThread == 10

\* The values base.PathDiskFreePercentage may report: below, at and above the
\* configured threshold.
DfValues == {DiskFreePercentage - 5, DiskFreePercentage, DiskFreePercentage + 2}

\* The goroutines calling SyncFiles and the concurrent calls of Lookup.
SyncIds == {"s1", "s2"}
LookupIds == {"l1", "l2"}

\* The goroutines calling FileLastSeen.
ReaderIds == {"r1"}

None == <<>>

\* t.mu has no writer.
NoWriter == "none"

\* ------------------------------------------------------------- file names

\* The unpadded binary numeral of n >= 1, most significant digit first.
RECURSIVE Digits(_)
Digits(n) == IF n < 2 THEN <<n>> ELSE Append(Digits(n \div 2), n % 2)

\* The names the writer draws from: "10", "11", "100", ...
Names == {Digits(i) : i \in 2..(NumNames + 1)}

\* The names of the first MaxFiles blockfiles, and the most packets of one of
\* them that match the query of a Lookup over them.
MergeFiles == {Digits(i) : i \in 2..(MaxFiles + 1)}
MergePkts == MaxPkts + 2

\* The names of a thread that has more blockfiles than the channel inputs of a
\* Lookup has room for.
FanoutFiles == {Digits(i) : i \in 2..(concurrentBlockfileReadsPerThread + NumNames)}

\* a < b as Go compares strings: at the first differing position, or a is a
\* proper prefix of b.
RECURSIVE LexLess(_, _)
LexLess(a, b) ==
  IF a = <<>> THEN b # <<>>
  ELSE IF b = <<>> THEN FALSE
  ELSE IF Head(a) # Head(b) THEN Head(a) < Head(b)
  ELSE LexLess(Tail(a), Tail(b))

\* A plausible slip: names compared as the numbers they spell (shorter first).
NumLess(a, b) ==
  \/ Len(a) < Len(b)
  \/ Len(a) = Len(b) /\ LexLess(a, b)

\* sort.Strings on the elements of S.
SortStrings(S) ==
  [i \in 1..Cardinality(S) |->
     CHOOSE x \in S : Cardinality({y \in S : LexLess(y, x)}) = i - 1]

RECURSIVE SortNumeric(_)
SortNumeric(S) ==
  IF S = {} THEN <<>>
  ELSE LET m == CHOOSE x \in S : \A y \in S \ {x} : NumLess(x, y)
       IN  <<m>> \o SortNumeric(S \ {m})

\* Every sequence that lists each element of S exactly once.
RECURSIVE Orderings(_)
Orderings(S) ==
  IF S = {} THEN {<<>>}
  ELSE UNION {{<<x>> \o rest : rest \in Orderings(S \ {x})} : x \in S}

Range(s) == {s[i] : i \in 1..Len(s)}

\* ------------------------------------------------------------------ state

VARIABLES
  \* the two directories of the thread, and what the writer has produced
  pktOnDisk,      \* names with a packet artifact under t.packetPath
  idxOnDisk,      \* names with an index artifact under t.indexPath
  written,        \* names the writer has ever begun
  \* Thread
  files,          \* keys of t.files; the handle of a name is named by it
  closed,         \* handles on which Close has been called
  fileLastSeen,   \* t.fileLastSeen, as the number of times it was set
  muWriter,       \* t.mu: the SyncFiles call that owns or awaits the write lock
  muReaders,      \* t.mu: the Lookup calls holding a read lock
  \* one SyncFiles call per element of SyncIds
  spc,            \* where the call is
  listing,        \* listPacketFilesOnDisk's result still to be visited
  df,             \* the last free percentage read in this call
  oldestFile,     \* deleteOldestThreadFile's oldestFile
  cycle,          \* what this call has seen and done so far (history)
  \* one Lookup call per element of LookupIds
  lpc,            \* where the fan-out goroutine is
  ctxDone,        \* ctx.Done() is closed
  todo,           \* the files the fan-out loop has yet to visit
  inputs,         \* the buffered channel inputs: per-file channels, by file
  inputsClosed,   \* close(inputs) has run
  mpc,            \* where the goroutine of ConcatPacketChans is
  mcur,           \* the per-file channel it is draining
  q,              \* per file: the per-file query and its packet channel
  emitted,        \* the packets sent on out, as <<file, index>>
  \* one FileLastSeen call per element of ReaderIds
  rpc,            \* where the call is
  lastSeen        \* what the last call returned

diskVars == <<pktOnDisk, idxOnDisk, written>>
threadVars == <<files, closed, fileLastSeen>>
muVars == <<muWriter, muReaders>>
syncVars == <<spc, listing, df, oldestFile, cycle>>
lookupVars == <<lpc, ctxDone, todo, inputs, inputsClosed, mpc, mcur, q, emitted>>
readVars == <<rpc, lastSeen>>
vars == <<diskVars, threadVars, muVars, syncVars, lookupVars, readVars>>

\* The saturation point of the per-call counters.
CountCap == NumNames + 1

Bump(n) == IF n < CountCap THEN n + 1 ELSE n

\* What a call of SyncFiles has seen and done: of its discovery, kept until
\* cleanUpOnLowDiskSpace finds the disk low or fails; of its eviction, kept
\* until it unlocks.
NoDiscovery ==
  [ onDisk       |-> {},      \* index artifacts on disk at ioutil.ReadDir
    filesBefore  |-> {},      \* t.files at ioutil.ReadDir
    closedBefore |-> {},      \* the handles closed by then
    seenBefore   |-> 0,       \* t.fileLastSeen at ioutil.ReadDir
    listed       |-> FALSE,   \* ioutil.ReadDir succeeded
    openFailed   |-> {} ]     \* names whose blockfile.NewBlockFile failed

NoCycle ==
  [ disc         |-> NoDiscovery,
    afterSync    |-> {},      \* t.files when syncFilesWithDisk returned
    nLow         |-> 0,       \* readings at or below the threshold
    nStuck       |-> 0,       \* turns of the loop that found no file to delete
    deleted      |-> <<>>,    \* names untracked by this call, in order
    err          |-> "none" ] \* why cleanUpOnLowDiskSpace returned

NoQuery == [st |-> "none", sent |-> 0, recv |-> 0]

Init ==
  /\ pktOnDisk = {} /\ idxOnDisk = {} /\ written = {}
  /\ files = {} /\ closed = {} /\ fileLastSeen = 0
  /\ muWriter = NoWriter /\ muReaders = {}
  /\ spc = [s \in SyncIds |-> "idle"]
  /\ listing = [s \in SyncIds |-> <<>>]
  /\ df = [s \in SyncIds |-> None]
  /\ oldestFile = [s \in SyncIds |-> None]
  /\ cycle = [s \in SyncIds |-> NoCycle]
  /\ lpc = [l \in LookupIds |-> "idle"]
  /\ ctxDone = [l \in LookupIds |-> FALSE]
  /\ todo = [l \in LookupIds |-> <<>>]
  /\ inputs = [l \in LookupIds |-> <<>>]
  /\ inputsClosed = [l \in LookupIds |-> FALSE]
  /\ mpc = [l \in LookupIds |-> "off"]
  /\ mcur = [l \in LookupIds |-> None]
  /\ q = [l \in LookupIds |-> [f \in Names |-> NoQuery]]
  /\ emitted = [l \in LookupIds |-> <<>>]
  /\ rpc = [r \in ReaderIds |-> "idle"]
  /\ lastSeen = [r \in ReaderIds |-> None]

\* The thread after the writer has written MaxFiles blockfiles and a call of
\* SyncFiles has tracked them all.
InitMerge ==
  /\ pktOnDisk = MergeFiles /\ idxOnDisk = MergeFiles /\ written = MergeFiles
  /\ files = MergeFiles /\ closed = {} /\ fileLastSeen = Cardinality(MergeFiles)
  /\ muWriter = NoWriter /\ muReaders = {}
  /\ spc = [s \in SyncIds |-> "idle"]
  /\ listing = [s \in SyncIds |-> <<>>]
  /\ df = [s \in SyncIds |-> None]
  /\ oldestFile = [s \in SyncIds |-> None]
  /\ cycle = [s \in SyncIds |-> NoCycle]
  /\ lpc = [l \in LookupIds |-> "idle"]
  /\ ctxDone = [l \in LookupIds |-> FALSE]
  /\ todo = [l \in LookupIds |-> <<>>]
  /\ inputs = [l \in LookupIds |-> <<>>]
  /\ inputsClosed = [l \in LookupIds |-> FALSE]
  /\ mpc = [l \in LookupIds |-> "off"]
  /\ mcur = [l \in LookupIds |-> None]
  /\ q = [l \in LookupIds |-> [f \in MergeFiles |-> NoQuery]]
  /\ emitted = [l \in LookupIds |-> <<>>]
  /\ rpc = [r \in ReaderIds |-> "idle"]
  /\ lastSeen = [r \in ReaderIds |-> None]

\* The thread after the writer has written the blockfiles of FanoutFiles and a
\* call of SyncFiles has tracked them all.
InitFanout ==
  /\ pktOnDisk = FanoutFiles /\ idxOnDisk = FanoutFiles /\ written = FanoutFiles
  /\ files = FanoutFiles /\ closed = {} /\ fileLastSeen = Cardinality(FanoutFiles)
  /\ muWriter = NoWriter /\ muReaders = {}
  /\ spc = [s \in SyncIds |-> "idle"]
  /\ listing = [s \in SyncIds |-> <<>>]
  /\ df = [s \in SyncIds |-> None]
  /\ oldestFile = [s \in SyncIds |-> None]
  /\ cycle = [s \in SyncIds |-> NoCycle]
  /\ lpc = [l \in LookupIds |-> "idle"]
  /\ ctxDone = [l \in LookupIds |-> FALSE]
  /\ todo = [l \in LookupIds |-> <<>>]
  /\ inputs = [l \in LookupIds |-> <<>>]
  /\ inputsClosed = [l \in LookupIds |-> FALSE]
  /\ mpc = [l \in LookupIds |-> "off"]
  /\ mcur = [l \in LookupIds |-> None]
  /\ q = [l \in LookupIds |-> [f \in FanoutFiles |-> NoQuery]]
  /\ emitted = [l \in LookupIds |-> <<>>]
  /\ rpc = [r \in ReaderIds |-> "idle"]
  /\ lastSeen = [r \in ReaderIds |-> None]

\* ------------------------------------------------------------- the writer

\* stenotype starts a new blockfile: it takes the names in lexicographic order,
\* and writes the index of a blockfile after its packets.
WritePacketFile(f) ==
  /\ f \in Names \ written
  /\ \A g \in Names \ written : g = f \/ LexLess(f, g)
  /\ pktOnDisk \subseteq idxOnDisk
  /\ written' = written \cup {f}
  /\ pktOnDisk' = pktOnDisk \cup {f}
  /\ UNCHANGED <<idxOnDisk, threadVars, muVars, syncVars, lookupVars, readVars>>

WriteIndexFile(f) ==
  /\ f \in pktOnDisk \ idxOnDisk
  /\ idxOnDisk' = idxOnDisk \cup {f}
  /\ UNCHANGED <<pktOnDisk, written, threadVars, muVars, syncVars, lookupVars, readVars>>

\* ------------------------------------------------------------------ t.mu

\* A Lookup that takes no notice of the writer.
RLockReadyAlways == TRUE

\* t.mu.RLock() returns: no writer owns or awaits the lock.
RLockReady == muWriter = NoWriter

\* A SyncFiles that does not wait for the readers to leave.
LockReadyIgnoringReaders(s) == muWriter = s

\* t.mu.Lock() returns to s, which has announced itself: no reader is left.
LockReady(s) == muWriter = s /\ muReaders = {}

\* ------------------------------------------------------ Thread's helpers

\* The name under which a listed index file is tracked: both directories name
\* the two artifacts of a blockfile by the same base name.
BlockfilePathFromIndexPath(n) == n

getSortedFilesNumeric == SortNumeric(files)

\* The names in an order of the map's iteration that sort.Strings would change.
getSortedFilesUnsorted ==
  LET sorted == SortStrings(files)
  IN  [i \in 1..Len(sorted) |-> sorted[Len(sorted) + 1 - i]]

\* The tracked names in the order their files were created.
getSortedFiles == SortStrings(files)

\* A comparison that takes a reading at the threshold for a sufficient one.
DiskSpaceSufficientAtThreshold(v) == v >= DiskFreePercentage

\* df > t.conf.DiskFreePercentage
DiskSpaceSufficient(v) == v > DiskFreePercentage

\* A loop that opens every listed blockfile anew.
AlreadyTrackedNever(filename) == FALSE

\* t.files[filename] != nil
AlreadyTracked(filename) == filename \in files

\* --------------------------------------------------------------- SyncFiles

LookupQuiet == UNCHANGED <<lookupVars, readVars>>

\* t.mu.Lock(), first half: s becomes the one writer that owns or awaits the
\* lock; from here on no new reader gets in.
SyncFilesLock(s) ==
  /\ spc[s] = "idle"
  /\ muWriter = NoWriter
  /\ muWriter' = s
  /\ spc' = [spc EXCEPT ![s] = "lockwait"]
  /\ UNCHANGED <<diskVars, threadVars, muReaders, listing, df, oldestFile,
                 cycle>>
  /\ LookupQuiet

\* t.mu.Lock(), second half: the readers have left and Lock returns.
SyncFilesLocked(s) ==
  /\ spc[s] = "lockwait"
  /\ LockReady(s)
  /\ spc' = [spc EXCEPT ![s] = "list"]
  /\ UNCHANGED <<diskVars, threadVars, muVars, listing, df, oldestFile, cycle>>
  /\ LookupQuiet

\* ioutil.ReadDir fails and listPacketFilesOnDisk returns nil, or it returns
\* the blockfile names of the index files, in some order.
listPacketFilesOnDisk(s) ==
  /\ spc[s] = "list"
  /\ \E ok \in BOOLEAN :
       /\ listing' \in {[listing EXCEPT ![s] = out] : out \in
            IF ok THEN Orderings({BlockfilePathFromIndexPath(n) : n \in idxOnDisk})
                  ELSE {<<>>}}
       /\ cycle' = [cycle EXCEPT ![s].disc =
            [onDisk |-> idxOnDisk, filesBefore |-> files,
             closedBefore |-> closed, seenBefore |-> fileLastSeen,
             listed |-> ok, openFailed |-> {}]]
  /\ spc' = [spc EXCEPT ![s] = "track"]
  /\ UNCHANGED <<diskVars, threadVars, muVars, df, oldestFile>>
  /\ LookupQuiet

\* A loop that gives up at the first blockfile it cannot open.
RestAfterOpenErrorAbort(rest) == <<>>

\* What the loop of syncFilesWithDisk does after trackNewFile has failed on
\* one name: it goes on with the names that follow.
RestAfterOpenError(rest) == rest

\* One turn of the loop of syncFilesWithDisk, with trackNewFile.
syncFilesWithDisk(s) ==
  /\ spc[s] = "track"
  /\ listing[s] # <<>>
  /\ LET filename == Head(listing[s])
         rest == Tail(listing[s])
     IN  IF AlreadyTracked(filename)
         THEN /\ listing' = [listing EXCEPT ![s] = rest]
              /\ UNCHANGED <<threadVars, cycle>>
         ELSE \/ \* blockfile.NewBlockFile fails
                 /\ listing' = [listing EXCEPT ![s] = RestAfterOpenError(rest)]
                 /\ cycle' = [cycle EXCEPT ![s].disc.openFailed = @ \cup {filename}]
                 /\ UNCHANGED threadVars
              \/ \* it opens the packet file and its index
                 /\ filename \in pktOnDisk \cap idxOnDisk
                 /\ files' = files \cup {filename}
                 /\ fileLastSeen' = fileLastSeen + 1
                 /\ listing' = [listing EXCEPT ![s] = rest]
                 /\ UNCHANGED <<closed, cycle>>
  /\ UNCHANGED <<diskVars, muVars, spc, df, oldestFile>>
  /\ LookupQuiet

\* syncFilesWithDisk returns.
syncFilesWithDiskDone(s) ==
  /\ spc[s] = "track"
  /\ listing[s] = <<>>
  /\ spc' = [spc EXCEPT ![s] = "synced"]
  /\ cycle' = [cycle EXCEPT ![s].afterSync = files]
  /\ UNCHANGED <<diskVars, threadVars, muVars, listing, df, oldestFile>>
  /\ LookupQuiet

\* A loop that calls deleteOldestThreadFile without looking at len(t.files).
AfterLowReadingAlwaysDelete == "delete"

\* Where the loop of cleanUpOnLowDiskSpace goes after a reading at or below
\* the threshold: with no file it logs, sleeps and measures again; with one
\* it deletes the oldest.
AfterLowReading == IF files = {} THEN "measure" ELSE "delete"

\* A loop that logs the error and goes round again.
AfterDeleteErrorRetry == "measure"

\* Where it goes when deleteOldestThreadFile returns an error: it returns.
AfterDeleteError == "unlock"

\* A loop that takes the failed reading for a low one.
AfterMeasureErrorAsLow == AfterLowReading

\* Where it goes when PathDiskFreePercentage returns an error: it returns.
AfterMeasureError == "unlock"

\* One turn of the loop of cleanUpOnLowDiskSpace up to its branch, after the
\* sleep of the turn before.
cleanUpOnLowDiskSpace(s) ==
  /\ spc[s] \in {"synced", "measure"}
  /\ \/ \* base.PathDiskFreePercentage fails
        /\ spc' = [spc EXCEPT ![s] = AfterMeasureError]
        /\ df' = [df EXCEPT ![s] = None]
        /\ cycle' = [cycle EXCEPT ![s].disc = NoDiscovery,
                                  ![s].err = "measure"]
     \/ \E v \in DfValues :
          /\ df' = [df EXCEPT ![s] = <<v>>]
          /\ IF DiskSpaceSufficient(v)
             THEN /\ spc' = [spc EXCEPT ![s] = "unlock"]
                  /\ cycle' = [cycle EXCEPT
                        ![s].nLow = IF v <= DiskFreePercentage THEN Bump(@) ELSE @,
                        ![s].err = "sufficient"]
             ELSE /\ spc' = [spc EXCEPT ![s] = AfterLowReading]
                  /\ cycle' = [cycle EXCEPT
                        ![s].disc = NoDiscovery,
                        ![s].nLow = IF v <= DiskFreePercentage THEN Bump(@) ELSE @,
                        ![s].nStuck = IF files = {} THEN Bump(@) ELSE @]
  /\ UNCHANGED <<diskVars, threadVars, muVars, listing, oldestFile>>
  /\ LookupQuiet

\* os.Remove succeeds on a file only if it is there.
RemoveCanSucceed(f, dir) == f \in dir

\* deleteOldestThreadFile up to the removal of the packet file.
deleteOldestThreadFile(s) ==
  /\ spc[s] = "delete"
  /\ LET oldest == getSortedFiles[1]
     IN  /\ oldestFile' = [oldestFile EXCEPT ![s] = oldest]
         /\ \/ \* os.Remove(t.getPacketFilePath(oldestFile)) fails
               /\ spc' = [spc EXCEPT ![s] = AfterDeleteError]
               /\ cycle' = [cycle EXCEPT ![s].err = "remove"]
               /\ UNCHANGED pktOnDisk
            \/ /\ RemoveCanSucceed(oldest, pktOnDisk)
               /\ pktOnDisk' = pktOnDisk \ {oldest}
               /\ spc' = [spc EXCEPT ![s] = "rmindex"]
               /\ UNCHANGED cycle
  /\ UNCHANGED <<idxOnDisk, written, threadVars, muVars, listing, df>>
  /\ LookupQuiet

\* An untrackFile that closes the handle and leaves it in t.files.
untrackFileKeepsEntry(s, filename) ==
  /\ closed' = closed \cup {filename}
  /\ spc' = [spc EXCEPT ![s] = "measure"]
  /\ cycle' = [cycle EXCEPT ![s].deleted = Append(@, filename)]
  /\ UNCHANGED <<files, fileLastSeen>>

\* untrackFile(filename): the handle is closed and leaves t.files.
untrackFile(s, filename) ==
  IF filename \notin files
  THEN /\ spc' = [spc EXCEPT ![s] = AfterDeleteError]
       /\ cycle' = [cycle EXCEPT ![s].err = "untrack"]
       /\ UNCHANGED threadVars
  ELSE /\ closed' = closed \cup {filename}
       /\ files' = files \ {filename}
       /\ spc' = [spc EXCEPT ![s] = "measure"]
       /\ cycle' = [cycle EXCEPT ![s].deleted = Append(@, filename)]
       /\ UNCHANGED fileLastSeen

\* deleteOldestThreadFile from the removal of the index file on.
deleteOldestThreadFileIndex(s) ==
  /\ spc[s] = "rmindex"
  /\ \/ \* os.Remove(t.getIndexFilePath(oldestFile)) fails
        /\ spc' = [spc EXCEPT ![s] = AfterDeleteError]
        /\ cycle' = [cycle EXCEPT ![s].err = "remove"]
        /\ UNCHANGED <<idxOnDisk, threadVars>>
     \/ /\ RemoveCanSucceed(oldestFile[s], idxOnDisk)
        /\ idxOnDisk' = idxOnDisk \ {oldestFile[s]}
        /\ untrackFile(s, oldestFile[s])
  /\ UNCHANGED <<pktOnDisk, written, muVars, listing, df, oldestFile>>
  /\ LookupQuiet

\* t.mu.Unlock(), and SyncFiles returns.
SyncFilesUnlock(s) ==
  /\ spc[s] = "unlock"
  /\ muWriter' = IF muWriter = s THEN NoWriter ELSE muWriter
  /\ spc' = [spc EXCEPT ![s] = "idle"]
  /\ listing' = [listing EXCEPT ![s] = <<>>]
  /\ df' = [df EXCEPT ![s] = None]
  /\ oldestFile' = [oldestFile EXCEPT ![s] = None]
  /\ cycle' = [cycle EXCEPT ![s] = NoCycle]
  /\ UNCHANGED <<diskVars, threadVars, muReaders>>
  /\ LookupQuiet

SyncFiles(s) ==
  \/ SyncFilesLock(s)
  \/ SyncFilesLocked(s)
  \/ listPacketFilesOnDisk(s)
  \/ syncFilesWithDisk(s)
  \/ syncFilesWithDiskDone(s)
  \/ cleanUpOnLowDiskSpace(s)
  \/ deleteOldestThreadFile(s)
  \/ deleteOldestThreadFileIndex(s)
  \/ SyncFilesUnlock(s)

\* ------------------------------------------------------------------ Lookup

SyncQuiet == UNCHANGED <<diskVars, threadVars, syncVars, readVars>>

Running(l) == {f \in DOMAIN q[l] : q[l][f].st = "run"}

\* The channels of a finished Lookup are garbage once their queries end.
Forget(ql) == [f \in DOMAIN ql |-> IF ql[f].st = "run" THEN ql[f] ELSE NoQuery]

\* Lookup up to its return: t.mu.RLock(), make(chan), ConcatPacketChans (whose
\* goroutine starts) and the go statement of the fan-out.  A call reuses the
\* place of an earlier one only when all goroutines of that one have ended.
Lookup(l) ==
  /\ lpc[l] = "idle"
  /\ Running(l) = {}
  /\ RLockReady
  /\ muReaders' = muReaders \cup {l}
  /\ lpc' = [lpc EXCEPT ![l] = "snapshot"]
  /\ mpc' = [mpc EXCEPT ![l] = "recv"]
  /\ UNCHANGED <<muWriter, ctxDone, todo, inputs, inputsClosed, mcur, q, emitted>>
  /\ SyncQuiet

\* The fan-out goroutine evaluates t.getSortedFiles().
LookupSnapshot(l) ==
  /\ lpc[l] = "snapshot"
  /\ todo' = [todo EXCEPT ![l] = getSortedFiles]
  /\ lpc' = [lpc EXCEPT ![l] = "fanout"]
  /\ UNCHANGED <<muVars, ctxDone, inputs, inputsClosed, mpc, mcur, q, emitted>>
  /\ SyncQuiet

\* select, case inputs <- packets: the channel has room; the per-file query
\* is started on the handle t.files[file].
LookupSend(l) ==
  /\ lpc[l] = "fanout"
  /\ todo[l] # <<>>
  /\ Len(inputs[l]) < concurrentBlockfileReadsPerThread
  /\ LET file == Head(todo[l])
     IN  /\ inputs' = [inputs EXCEPT ![l] = Append(@, file)]
         /\ q' = [q EXCEPT ![l][file] = [st |-> "run", sent |-> 0, recv |-> 0]]
  /\ todo' = [todo EXCEPT ![l] = Tail(@)]
  /\ UNCHANGED <<muVars, lpc, ctxDone, inputsClosed, mpc, mcur, emitted>>
  /\ SyncQuiet

\* A loop that may stop before it has visited every file.
FanoutOverEarly(l) == TRUE

\* The range loop has no file left, or select can take case <-ctx.Done().
FanoutOver(l) == todo[l] = <<>> \/ ctxDone[l]

\* The loop ends, or select takes case <-ctx.Done() and the goroutine returns;
\* the deferred function begins with close(inputs).
LookupLoopEnd(l) ==
  /\ lpc[l] = "fanout"
  /\ FanoutOver(l)
  /\ inputsClosed' = [inputsClosed EXCEPT ![l] = TRUE]
  /\ lpc' = [lpc EXCEPT ![l] = "waitdone"]
  /\ UNCHANGED <<muVars, ctxDone, todo, inputs, mpc, mcur, q, emitted>>
  /\ SyncQuiet

\* A deferred function that does not wait for the merged stream.
OutDoneUnawaited(l) == TRUE

\* <-out.Done() returns.
OutDone(l) == mpc[l] = "done"

\* The deferred function, from <-out.Done() on: t.mu.RUnlock().
LookupRUnlock(l) ==
  /\ lpc[l] = "waitdone"
  /\ OutDone(l)
  /\ muReaders' = muReaders \ {l}
  /\ lpc' = [lpc EXCEPT ![l] = "idle"]
  /\ ctxDone' = [ctxDone EXCEPT ![l] = FALSE]
  /\ todo' = [todo EXCEPT ![l] = <<>>]
  /\ inputs' = [inputs EXCEPT ![l] = <<>>]
  /\ inputsClosed' = [inputsClosed EXCEPT ![l] = FALSE]
  /\ mpc' = [mpc EXCEPT ![l] = "off"]
  /\ mcur' = [mcur EXCEPT ![l] = None]
  /\ q' = [q EXCEPT ![l] = Forget(@)]
  /\ emitted' = [emitted EXCEPT ![l] = <<>>]
  /\ UNCHANGED muWriter
  /\ SyncQuiet

\* The caller cancels ctx.
Cancel(l) ==
  /\ lpc[l] # "idle"
  /\ ~ctxDone[l]
  /\ ctxDone' = [ctxDone EXCEPT ![l] = TRUE]
  /\ UNCHANGED <<muVars, lpc, todo, inputs, inputsClosed, mpc, mcur, q, emitted>>
  /\ SyncQuiet

\* ---------------------------------- the per-file query, BlockFile.Lookup

\* What is left of a query's record when it ends in state st.
Ended(l, f, st) ==
  IF lpc[l] = "idle" THEN NoQuery ELSE [q[l][f] EXCEPT !.st = st]

\* The query sends its next matching packet on its channel; the blockfile has
\* at most n of them.
QuerySendUpTo(l, f, n) ==
  /\ q[l][f].st = "run"
  /\ q[l][f].sent < n
  /\ q' = [q EXCEPT ![l][f].sent = @ + 1]
  /\ UNCHANGED <<muVars, lpc, ctxDone, todo, inputs, inputsClosed, mpc, mcur, emitted>>
  /\ SyncQuiet

QuerySend(l, f) == QuerySendUpTo(l, f, MaxPkts)

\* The query ends in state st.
QueryEndAs(l, f, st) ==
  /\ q[l][f].st = "run"
  /\ q' = [q EXCEPT ![l][f] = Ended(l, f, st)]
  /\ UNCHANGED <<muVars, lpc, ctxDone, todo, inputs, inputsClosed, mpc, mcur, emitted>>
  /\ SyncQuiet

\* The query ends: it closes its channel without an error, or with one (a
\* failure of its own, or ctx seen cancelled).
QueryEnd(l, f) == \E st \in {"closed", "err"} : QueryEndAs(l, f, st)

\* ------------------------------ the merged stream, base.ConcatPacketChans

\* The next per-file channel is received from inputs.
ConcatTake(l) ==
  /\ mpc[l] = "recv"
  /\ inputs[l] # <<>>
  /\ mcur' = [mcur EXCEPT ![l] = Head(inputs[l])]
  /\ inputs' = [inputs EXCEPT ![l] = Tail(@)]
  /\ mpc' = [mpc EXCEPT ![l] = "drain"]
  /\ UNCHANGED <<muVars, lpc, ctxDone, todo, inputsClosed, q, emitted>>
  /\ SyncQuiet

\* A packet of the channel being drained is sent on out.
ConcatEmit(l) ==
  /\ mpc[l] = "drain"
  /\ LET f == mcur[l]
     IN  /\ q[l][f].recv < q[l][f].sent
         /\ emitted' = [emitted EXCEPT ![l] = Append(@, <<f, q[l][f].recv + 1>>)]
         /\ q' = [q EXCEPT ![l][f].recv = @ + 1]
  /\ UNCHANGED <<muVars, lpc, ctxDone, todo, inputs, inputsClosed, mpc, mcur>>
  /\ SyncQuiet

\* The channel being drained is closed and empty: on to the next one.
ConcatNext(l) ==
  /\ mpc[l] = "drain"
  /\ LET f == mcur[l]
     IN  q[l][f].st = "closed" /\ q[l][f].recv = q[l][f].sent
  /\ mpc' = [mpc EXCEPT ![l] = "recv"]
  /\ mcur' = [mcur EXCEPT ![l] = None]
  /\ UNCHANGED <<muVars, lpc, ctxDone, todo, inputs, inputsClosed, q, emitted>>
  /\ SyncQuiet

\* out is closed and reported done: inputs is closed and empty; or the channel
\* being drained has failed; or ctx is cancelled while one is being drained,
\* and the producers still at work are abandoned.
ConcatClose(l) ==
  /\ \/ mpc[l] = "recv" /\ inputs[l] = <<>> /\ inputsClosed[l]
     \/ mpc[l] = "drain" /\ q[l][mcur[l]].st = "err"
     \/ mpc[l] = "drain" /\ ctxDone[l]
  /\ mpc' = [mpc EXCEPT ![l] = "done"]
  /\ UNCHANGED <<muVars, lpc, ctxDone, todo, inputs, inputsClosed, mcur, q, emitted>>
  /\ SyncQuiet

LookupCall(l) ==
  \/ Lookup(l)
  \/ LookupSnapshot(l)
  \/ LookupSend(l)
  \/ LookupLoopEnd(l)
  \/ LookupRUnlock(l)
  \/ Cancel(l)
  \/ \E f \in DOMAIN q[l] : QuerySend(l, f) \/ QueryEnd(l, f)
  \/ ConcatTake(l)
  \/ ConcatEmit(l)
  \/ ConcatNext(l)
  \/ ConcatClose(l)

\* A Lookup whose per-file queries match no packet.
LookupCallEmpty(l) ==
  \/ Lookup(l)
  \/ LookupSnapshot(l)
  \/ LookupSend(l)
  \/ LookupLoopEnd(l)
  \/ LookupRUnlock(l)
  \/ Cancel(l)
  \/ \E f \in DOMAIN q[l] : QueryEnd(l, f)
  \/ ConcatTake(l)
  \/ ConcatNext(l)
  \/ ConcatClose(l)

\* ------------------------------------------------------------ FileLastSeen

\* t.mu.RLock()
FileLastSeenRLock(r) ==
  /\ rpc[r] = "idle"
  /\ RLockReady
  /\ muReaders' = muReaders \cup {r}
  /\ rpc' = [rpc EXCEPT ![r] = "read"]
  /\ UNCHANGED <<diskVars, threadVars, muWriter, syncVars, lookupVars, lastSeen>>

\* return t.fileLastSeen, and the deferred t.mu.RUnlock()
FileLastSeenReturn(r) ==
  /\ rpc[r] = "read"
  /\ lastSeen' = [lastSeen EXCEPT ![r] = <<fileLastSeen>>]
  /\ muReaders' = muReaders \ {r}
  /\ rpc' = [rpc EXCEPT ![r] = "idle"]
  /\ UNCHANGED <<diskVars, threadVars, muWriter, syncVars, lookupVars>>

FileLastSeen(r) ==
  \/ FileLastSeenRLock(r)
  \/ FileLastSeenReturn(r)

\* ------------------------------------------------------ the specifications

\* The writer, creating at most n blockfiles.
Writer(n) ==
  \/ Cardinality(written) < n /\ \E f \in Names : WritePacketFile(f)
  \/ \E f \in Names : WriteIndexFile(f)

\* One caller of SyncFiles and one Lookup at a time, with their goroutines.
Next ==
  \/ Writer(MaxFiles)
  \/ SyncFiles("s1")
  \/ LookupCall("l1")

Spec == Init /\ [][Next]_vars

\* SyncFiles alone, called from two goroutines.
NextSync ==
  \/ Writer(NumNames)
  \/ \E s \in SyncIds : SyncFiles(s)

SpecSync == Init /\ [][NextSync]_vars

\* Two callers of SyncFiles beside two Lookups.
NextMutex ==
  \/ Writer(MaxFiles - 1)
  \/ \E s \in SyncIds : SyncFiles(s)
  \/ \E l \in LookupIds : LookupCallEmpty(l)

SpecMutex == Init /\ [][NextMutex]_vars

\* A Lookup whose per-file queries match up to MergePkts packets each.
LookupCallMerge(l) ==
  \/ Lookup(l)
  \/ LookupSnapshot(l)
  \/ LookupSend(l)
  \/ LookupLoopEnd(l)
  \/ LookupRUnlock(l)
  \/ Cancel(l)
  \/ \E f \in DOMAIN q[l] : QuerySendUpTo(l, f, MergePkts) \/ QueryEnd(l, f)
  \/ ConcatTake(l)
  \/ ConcatEmit(l)
  \/ ConcatNext(l)
  \/ ConcatClose(l)

\* A caller of SyncFiles, a Lookup and a caller of FileLastSeen.
NextFrame ==
  \/ Writer(MaxFiles)
  \/ SyncFiles("s1")
  \/ LookupCallEmpty("l1")
  \/ FileLastSeen("r1")

SpecFrame == Init /\ [][NextFrame]_vars

\* One Lookup over a thread of MaxFiles blockfiles.
NextMerge == LookupCallMerge("l1")

SpecMerge == InitMerge /\ [][NextMerge]_vars

\* The oldest blockfile of the thread of many blockfiles.
CorruptFile == SortStrings(FanoutFiles)[1]

\* A Lookup whose per-file queries match no packet, and fail on no blockfile
\* but the corrupt one.
LookupCallFanout(l) ==
  \/ Lookup(l)
  \/ LookupSnapshot(l)
  \/ LookupSend(l)
  \/ LookupLoopEnd(l)
  \/ LookupRUnlock(l)
  \/ Cancel(l)
  \/ \E f \in DOMAIN q[l] : QueryEndAs(l, f, "closed")
  \/ QueryEndAs(l, CorruptFile, "err")
  \/ ConcatTake(l)
  \/ ConcatNext(l)
  \/ ConcatClose(l)

\* One Lookup over a thread of many blockfiles.
NextFanout == LookupCallFanout("l1")

SpecFanout == InitFanout /\ [][NextFanout]_vars

\* The steps of the goroutine that Lookup starts, and those of the goroutine of
\* ConcatPacketChans with the consumer of out behind it.
FanoutGoroutine(l) ==
  LookupSnapshot(l) \/ LookupSend(l) \/ LookupLoopEnd(l) \/ LookupRUnlock(l)

ConcatGoroutine(l) == ConcatTake(l) \/ ConcatNext(l) \/ ConcatClose(l)

\* The steps by which the per-file queries of a Lookup end on their own.
QueryGoroutines(l) == \E f \in DOMAIN q[l] : QueryEndAs(l, f, "closed")

\* The scheduler lets the goroutines that can take a step take one in the end;
\* the caller of Lookup is free never to call it and never to cancel ctx.
FairFanout ==
  /\ SpecFanout
  /\ WF_vars(FanoutGoroutine("l1"))
  /\ WF_vars(ConcatGoroutine("l1"))
  /\ WF_vars(QueryGoroutines("l1"))

\* ---------------------------------------------------------------- claims

\* A call of SyncFiles is between the return of t.mu.Lock() and t.mu.Unlock().
SyncActive(s) ==
  spc[s] \in {"list", "track", "synced", "measure", "delete", "rmindex", "unlock"}

\* A Lookup is between t.mu.RLock() and t.mu.RUnlock().
ReadHeld(l) == lpc[l] \in {"snapshot", "fanout", "waitdone"}

\* C1: no handle is closed while a per-file query that some Lookup started on
\* it is still running.
C1_NoUseAfterClose ==
  \A l \in LookupIds : \A f \in Names : q[l][f].st = "run" => f \notin closed

\* C2: while a SyncFiles holds the write lock (discovery or eviction), no other
\* SyncFiles holds it and no Lookup is between RLock and RUnlock.
C2_SyncExclusive ==
  \A s \in SyncIds :
    SyncActive(s) =>
      /\ \A s2 \in SyncIds \ {s} : ~SyncActive(s2)
      /\ \A l \in LookupIds : ~ReadHeld(l)

\* An eviction is under way, both Lookups having returned and left per-file
\* queries behind.
C2_Witness ==
  \E s \in SyncIds :
    /\ spc[s] = "rmindex"
    /\ \A l \in LookupIds : lpc[l] = "idle" /\ Running(l) # {}

\* C3: the files of origin of the packets a Lookup has emitted never step back
\* in lexicographic order.
C3_MergeOrder ==
  \A l \in LookupIds :
    \A i \in 1..Len(emitted[l]) : \A j \in 1..Len(emitted[l]) :
      i < j => \/ emitted[l][i][1] = emitted[l][j][1]
               \/ LexLess(emitted[l][i][1], emitted[l][j][1])

\* A cancelled Lookup has emitted packets of two files.
C3_Witness ==
  \E l \in LookupIds :
    /\ Len(emitted[l]) >= 2
    /\ emitted[l][1][1] # emitted[l][Len(emitted[l])][1]
    /\ ctxDone[l]

\* The least of the tracked names.
IsOldest(f) == f \in files /\ \A g \in files : g = f \/ LexLess(f, g)

\* The names a step removes from a directory or from t.files.
Removed == (pktOnDisk \ pktOnDisk') \cup (idxOnDisk \ idxOnDisk') \cup (files \ files')

\* The call of SyncFiles that is deleting.
Deleting(s) == spc[s] \in {"delete", "rmindex"}

\* C4 as stated: every name deleted is the least tracked one when it is
\* chosen, and the names deleted, within a call of SyncFiles and from one call
\* to the next, form an increasing sequence.
C4_IncreasingAcrossCycles ==
  [][\A f \in Removed :
       /\ IsOldest(f)
       /\ \A g \in closed : LexLess(g, f)]_vars

\* C4 as amended: every name deleted is the least tracked one when it is
\* chosen, so no tracked name is deleted while an older one is tracked, and the
\* names deleted within one call of SyncFiles form an increasing sequence.
C4_OldestFirst ==
  [][\A f \in Removed :
       /\ IsOldest(f)
       /\ \E s \in SyncIds :
            /\ Deleting(s)
            /\ oldestFile'[s] = f
            /\ \A i \in 1..Len(cycle[s].deleted) : LexLess(cycle[s].deleted[i], f)]_vars

\* One call of SyncFiles has deleted two files.
C4_Witness == \E s \in SyncIds : Len(cycle[s].deleted) >= 2

\* The first n elements of a sequence.
Prefix(seq, n) == [i \in 1..n |-> seq[i]]

\* C5: a name is removed only by a call whose last reading was at or below the
\* threshold; and a call that ends on a reading above it, having always found
\* a file to delete, has deleted as many files as it had readings at or below
\* the threshold: the oldest ones, in order.
C5_ThresholdDriven ==
  [][/\ \A f \in Removed :
          \E s \in SyncIds :
            Deleting(s) /\ df[s] # None /\ df[s][1] <= DiskFreePercentage
     /\ \A s \in SyncIds :
          (spc'[s] = "unlock" /\ cycle'[s].err = "sufficient" /\ cycle'[s].nStuck = 0)
            => /\ df'[s][1] > DiskFreePercentage
               /\ Len(cycle'[s].deleted) = cycle'[s].nLow
               /\ cycle'[s].nLow <= Cardinality(cycle'[s].afterSync)
               /\ cycle'[s].deleted =
                    Prefix(SortStrings(cycle'[s].afterSync), cycle'[s].nLow)
               /\ files' = cycle'[s].afterSync \ Range(cycle'[s].deleted)]_vars

\* Three files tracked, two readings at or below the threshold and one above:
\* the two oldest are deleted and the third is left.
C5_Witness ==
  \E s \in SyncIds :
    /\ spc[s] = "unlock" /\ cycle[s].err = "sufficient"
    /\ Cardinality(cycle[s].afterSync) = 3
    /\ cycle[s].nLow = 2 /\ cycle[s].nStuck = 0
    /\ df[s] = <<DiskFreePercentage + 2>>
    /\ Len(cycle[s].deleted) = 2
    /\ Cardinality(files) = 1

\* C6 as stated: when syncFilesWithDisk returns, the tracked names are the
\* names of the index files that were on disk, less those that failed to open.
C6_TrackedIsOnDisk ==
  \A s \in SyncIds :
    spc[s] = "synced" => files = cycle[s].disc.onDisk \ cycle[s].disc.openFailed

\* C6 as amended: so it is when the index directory could be read; when it
\* could not, the tracked names are those tracked before.
C6_TrackedIsListed ==
  \A s \in SyncIds :
    spc[s] = "synced" =>
      IF cycle[s].disc.listed
      THEN files = cycle[s].disc.onDisk \ cycle[s].disc.openFailed
      ELSE files = cycle[s].disc.filesBefore

\* A discovery that found a tracked file, tracked a new one and failed to open
\* a third.
C6_Witness ==
  \E s \in SyncIds :
    /\ spc[s] = "synced" /\ cycle[s].disc.listed
    /\ cycle[s].disc.filesBefore # {}
    /\ files # cycle[s].disc.filesBefore
    /\ cycle[s].disc.openFailed # {}

\* C7: a reading at or below the threshold with no file tracked ends
\* cleanUpOnLowDiskSpace, and SyncFiles goes on to unlock.
C7_StuckAborts ==
  \A s \in SyncIds : cycle[s].nStuck > 0 => spc[s] = "unlock"

\* C8: once os.Remove has failed on the packet file or the index file of the
\* oldest file, the call is on its way to unlock, that file is tracked and its
\* handle open, and nothing more is removed.
C8_RemoveErrorAborts ==
  [][\A s \in SyncIds :
       /\ cycle'[s].err = "remove" =>
            /\ spc'[s] = "unlock"
            /\ oldestFile'[s] \in files'
            /\ oldestFile'[s] \notin closed'
       /\ cycle[s].err = "remove" => Removed = {} /\ closed' = closed]_vars

\* The removal of the index file has failed after that of the packet file,
\* in a call that had deleted a file before.
C8_Witness ==
  \E s \in SyncIds :
    /\ cycle[s].err = "remove"
    /\ oldestFile[s] \notin pktOnDisk
    /\ oldestFile[s] \in idxOnDisk
    /\ cycle[s].deleted # <<>>
    /\ Cardinality(files) >= 2

\* C9: once base.PathDiskFreePercentage has failed, the call is on its way to
\* unlock, holding the lock it will release, and nothing more is removed,
\* closed or untracked.
C9_MeasureErrorAborts ==
  [][\A s \in SyncIds :
       /\ cycle'[s].err = "measure" => spc'[s] = "unlock" /\ muWriter' = s
       /\ cycle[s].err = "measure" =>
            /\ Removed = {} /\ closed' = closed
            /\ spc'[s] \in {"unlock", "idle"}]_vars

\* The reading has failed in a later turn of the loop, after a deletion, with
\* a file still tracked.
C9_Witness ==
  \E s \in SyncIds :
    /\ cycle[s].err = "measure"
    /\ cycle[s].deleted # <<>>
    /\ files # {}

\* C10: while syncFilesWithDisk visits a listing, no name that failed to open
\* is tracked, and every listed name is tracked, has failed to open or is
\* still to be visited; so at the end every listed name that did not fail is
\* tracked.
C10_OpenErrorSkipsOne ==
  \A s \in SyncIds :
    (spc[s] \in {"track", "synced"} /\ cycle[s].disc.listed) =>
      /\ cycle[s].disc.openFailed \cap files = {}
      /\ cycle[s].disc.onDisk \subseteq
           files \cup cycle[s].disc.openFailed \cup Range(listing[s])

\* Of two index files the older failed to open and the newer, visited in
\* either order, is the one new tracked name.
C10_Witness ==
  \E s \in SyncIds :
    /\ spc[s] = "synced" /\ cycle[s].disc.listed
    /\ Cardinality(cycle[s].disc.onDisk) = 2
    /\ cycle[s].disc.filesBefore = {}
    /\ Cardinality(files) = 1
    /\ \E x \in files : \E y \in cycle[s].disc.openFailed : LexLess(y, x)

\* C11: a call of SyncFiles that found every index file on disk tracked, and
\* whose first reading of the free percentage was above the threshold, has, when
\* it is about to unlock, left t.files, the handles closed and t.fileLastSeen
\* as they were; so have the discovery of such a call, and every call after it.
C11_SyncIdempotent ==
  \A s \in SyncIds :
    LET d == cycle[s].disc
    IN  ( /\ d.onDisk \subseteq d.filesBefore
          /\ \/ spc[s] \in {"track", "synced"}
             \/ spc[s] = "unlock" /\ cycle[s].err = "sufficient" /\ cycle[s].nLow = 0 )
        => /\ files = d.filesBefore
           /\ closed = d.closedBefore
           /\ fileLastSeen = d.seenBefore

\* A call that found its two index files tracked and the disk sufficient is
\* about to unlock, in an execution where an earlier call has evicted a file.
C11_Witness ==
  \E s \in SyncIds :
    /\ spc[s] = "unlock" /\ cycle[s].err = "sufficient" /\ cycle[s].nLow = 0
    /\ cycle[s].disc.listed
    /\ cycle[s].disc.onDisk = cycle[s].disc.filesBefore
    /\ Cardinality(cycle[s].disc.onDisk) = 2
    /\ closed # {}

\* The per-file queries a Lookup has started whose channel the merged stream
\* has not done with: those waiting in inputs and the one being drained.
Unconsumed(l) ==
  Range(inputs[l]) \cup (IF mcur[l] = None THEN {} ELSE {mcur[l]})

\* C12: at no moment of a Lookup are more per-file queries started and not yet
\* consumed by the merged stream than the channel inputs has room for.
C12_BoundedFanout ==
  \A l \in LookupIds :
    /\ \A f \in Unconsumed(l) : q[l][f].st # "none"
    /\ Cardinality(Unconsumed(l)) <= concurrentBlockfileReadsPerThread

\* The per-file queries a step starts.
Started(l) == {f \in DOMAIN q[l] : q[l][f].st = "none" /\ q'[l][f].st = "run"}

\* C13: once ctx of a Lookup is cancelled, that Lookup starts no further
\* per-file query.
C13_CancelStopsAdmission ==
  [][\A l \in LookupIds : ctxDone[l] => Started(l) = {}]_vars

\* C14: a Lookup holds the read lock of t.mu from its first step, before it
\* evaluates getSortedFiles, for as long as it is under way; the one step that
\* gives the lock up is taken by a Lookup that holds it, whose fan-out loop has
\* ended and closed inputs and whose merged stream is done, and it ends the
\* Lookup, so the lock is given up once.
C14_ReadHoldLifetime ==
  [][\A l \in LookupIds :
       /\ ReadHeld(l)' <=> l \in muReaders'
       /\ (lpc[l] = "idle" /\ lpc'[l] # "idle") =>
            /\ l \notin muReaders /\ l \in muReaders'
            /\ lpc'[l] = "snapshot" /\ todo'[l] = <<>> /\ mpc'[l] = "recv"
       /\ ((l \in muReaders /\ l \notin muReaders') \/ (lpc[l] # "idle" /\ lpc'[l] = "idle")) =>
            /\ l \in muReaders /\ l \notin muReaders'
            /\ lpc[l] = "waitdone" /\ lpc'[l] = "idle"
            /\ inputsClosed[l]
            /\ mpc[l] = "done"]_vars

\* A Lookup has given up the read lock and left per-file queries behind.
C14_Witness ==
  \E l \in LookupIds :
    /\ lpc[l] = "idle" /\ l \notin muReaders
    /\ Cardinality(Running(l)) >= 2

\* The packets the per-file query of l on f has sent, in the order it sent them.
Results(l, f) == [i \in 1..q[l][f].sent |-> <<f, i>>]

\* The results of the per-file queries of l on the files of fs, one file after
\* the other.
RECURSIVE ConcatResults(_, _)
ConcatResults(l, fs) ==
  IF fs = <<>> THEN <<>>
  ELSE Results(l, Head(fs)) \o ConcatResults(l, Tail(fs))

\* C15: when the merged stream of a Lookup that was not cancelled and none of
\* whose per-file queries failed is done, a query has run to its end on every
\* tracked file, and the packets emitted are the results of these queries,
\* file after file in ascending order of the names, each file's in the order
\* its query sent them.
C15_MergeComplete ==
  \A l \in LookupIds :
    ( /\ ReadHeld(l) /\ mpc[l] = "done" /\ ~ctxDone[l]
      /\ \A f \in files : q[l][f].st # "err" )
    => /\ \A f \in files : q[l][f].st = "closed"
       /\ emitted[l] = ConcatResults(l, SortStrings(files))

\* Of two tracked files the older matched MergePkts packets and the newer none:
\* the merged stream is done and has emitted those of the older.
C15_Witness ==
  \E l \in LookupIds :
    /\ ReadHeld(l) /\ mpc[l] = "done" /\ ~ctxDone[l]
    /\ Cardinality(files) = 2
    /\ \A f \in files : q[l][f].st = "closed"
    /\ q[l][SortStrings(files)[1]].sent = MergePkts
    /\ q[l][SortStrings(files)[2]].sent = 0
    /\ Len(emitted[l]) = MergePkts

\* No call of SyncFiles is between the return of t.mu.Lock() and t.mu.Unlock().
NoSyncActive == \A s \in SyncIds : ~SyncActive(s)

\* C16: while the write lock is not held, the handle of every tracked name is
\* open; a handle is closed only by a step of the SyncFiles that holds the
\* write lock, with no reader in, and that step, which leaves the lock held,
\* takes the name out of t.files; and the handle on which a Lookup starts a
\* per-file query is that of a tracked name and open.
C16_TrackedAreOpen ==
  [][/\ NoSyncActive' => files' \cap closed' = {}
     /\ closed \subseteq closed'
     /\ closed' # closed =>
          /\ \E s \in SyncIds :
               SyncActive(s) /\ SyncActive(s)' /\ muWriter = s /\ Deleting(s)
          /\ muReaders = {}
          /\ (closed' \ closed) \subseteq files
          /\ (closed' \ closed) \cap files' = {}
     /\ \A l \in LookupIds : \A f \in Started(l) : f \in files /\ f \notin closed]_vars

\* A Lookup has started a per-file query on the handle of the one file left
\* after an eviction.
C16_Witness ==
  \E l \in LookupIds :
    /\ ReadHeld(l) /\ Running(l) # {}
    /\ closed # {} /\ files # {}

\* C17: a step that changes t.files, the handles closed or t.fileLastSeen is a
\* step of the SyncFiles that holds the write lock, in its discovery or its
\* eviction, with no reader in; and no step of a Lookup, of its per-file
\* queries, of its merged stream or of FileLastSeen changes any of them.
C17_OnlySyncMutates ==
  [][/\ threadVars' # threadVars =>
          /\ \E s \in SyncIds :
               /\ SyncActive(s) /\ muWriter = s
               /\ spc[s] \in {"track", "rmindex"}
          /\ muReaders = {}
     /\ (lookupVars' # lookupVars \/ readVars' # readVars \/ muReaders' # muReaders)
          => threadVars' = threadVars]_vars

\* FileLastSeen, which has returned before, holds the read lock beside a Lookup
\* with a per-file query running, after a discovery and an eviction.
C17_Witness ==
  \E l \in LookupIds : \E r \in ReaderIds :
    /\ rpc[r] = "read" /\ lastSeen[r] # None
    /\ ReadHeld(l) /\ Running(l) # {}
    /\ files # {} /\ closed # {}

\* C18: a Lookup whose ctx is cancelled, or whose merged stream is done, gives
\* up the read lock in the end.
C18_ReadHoldReleased ==
  \A l \in LookupIds :
    (ReadHeld(l) /\ (ctxDone[l] \/ mpc[l] = "done")) ~> ~ReadHeld(l)

\* C19: once a call of SyncFiles has returned, whether or not a removal failed
\* in it, every tracked name has its packet file and its index file on disk.
C19_NoHalfDeleted ==
  NoSyncActive => files \subseteq (pktOnDisk \cap idxOnDisk)

\* C20: deleteOldestThreadFile is under way only with a file tracked, the name
\* it hands to untrackFile is tracked, and no call of SyncFiles has ended on
\* the error of untrackFile.
C20_EvictionPreconditions ==
  \A s \in SyncIds :
    /\ Deleting(s) => files # {}
    /\ spc[s] = "rmindex" => oldestFile[s] \in files
    /\ cycle[s].err # "untrack"

\* An eviction has untracked the last file and the loop measures again, with a
\* Lookup having returned and left a per-file query behind.
C20_Witness ==
  \E s \in SyncIds : \E l \in LookupIds :
    /\ spc[s] = "measure" /\ cycle[s].deleted # <<>> /\ files = {}
    /\ lpc[l] = "idle" /\ Running(l) # {}

====
